---- MODULE Spec2Model ----
(***************************************************************************)
(* Verification model of the logging facility of DocAtlas                  *)
(* (src/logger/setup.py): the LogLevel model, the Singleton registry that  *)
(* memoizes LoggerHandler instances, LoggerHandler.setup, and the          *)
(* LoggerManager queue/listener pipeline.                                  *)
(***************************************************************************)
EXTENDS Integers, Sequences, FiniteSets, TLC

VARIABLES
    instances,      \* Singleton._instances: key -> instance id
    objects,        \* LoggerHandler objects: id -> attribute record
    history,        \* the constructions made so far: <<[call, result]>>
    loggingEnabled, \* os.environ LOGGING_ENABLED as read by __init__
    managers,       \* LoggerManager objects: handle -> attribute record
    loggers,        \* logging.getLogger(name).handlers: name -> handlers
    pipelines,      \* the queue + QueueListener pairs created so far
    rootHandlers,   \* logging.getLogger().handlers (the root logger)
    handlerListeners, \* listeners created by LoggerHandler.setup
    fallbackLog,    \* messages reported on a fallback logger
    sent,           \* per producer thread: log_message calls made
    result,         \* what the last operation returned or raised
    operand,        \* the argument a function under study is applied to
    adapter,        \* the InstanceAdapter: its context, lock and callers
    callers,        \* Singleton._lock and the threads inside __call__
    logFile         \* one RotatingFileHandler: its limits and its files

regVars == <<instances, objects, history, loggingEnabled>>
pipeVars == <<managers, loggers, pipelines, rootHandlers, handlerListeners,
              fallbackLog, sent, result>>
auxVars == <<operand, adapter, callers, logFile>>
vars == <<instances, objects, history, loggingEnabled, managers, loggers,
          pipelines, rootHandlers, handlerListeners, fallbackLog, sent, result,
          operand, adapter, callers, logFile>>

----------------------------------------------------------------------------
(* Python values that reach the constructor, tagged by their type.          *)

StrV(x)   == [t |-> "str",   s |-> x,  n |-> 0]
BoolV(x)  == [t |-> "bool",  s |-> "", n |-> IF x THEN 1 ELSE 0]
IntV(x)   == [t |-> "int",   s |-> "", n |-> x]
PathV(x)  == [t |-> "path",  s |-> x,  n |-> 0]
LevelV(x) == [t |-> "level", s |-> x,  n |-> 0]
NoneV     == [t |-> "none",  s |-> "", n |-> 0]

\* isinstance(v, int): bool is a subclass of int.
IsInt(v) == v.t \in {"int", "bool"}

\* Python truthiness, as used by `console_level or LogLevel.INFO`.
Truthy(v) ==
    CASE v.t = "none" -> FALSE
      [] v.t = "str"  -> v.s # ""
      [] v.t \in {"int", "bool"} -> v.n # 0
      [] OTHER        -> TRUE

----------------------------------------------------------------------------
(* LogLevel                                                                 *)

Levels == {"DEBUG", "INFO", "WARNING", "ERROR", "CRITICAL"}

DEBUG == 10
INFO == 20
WARNING == 30
ERROR == 40
CRITICAL == 50

\* LogLevel member values: DEBUG = "debug", ...
LevelValue(l) ==
    CASE l = "DEBUG"    -> "debug"
      [] l = "INFO"     -> "info"
      [] l = "WARNING"  -> "warning"
      [] l = "ERROR"    -> "error"
      [] l = "CRITICAL" -> "critical"

\* The letter case of the argument kept (mutant).
UpperIdentity(s) == s

\* str.upper() on the strings the model passes as level names.
Upper(s) ==
    CASE s \in {"debug", "Debug", "dEbUg"}          -> "DEBUG"
      [] s \in {"info", "Info", "iNfO"}             -> "INFO"
      [] s \in {"warning", "Warning", "WARNing"}    -> "WARNING"
      [] s \in {"error", "Error", "eRROR"}          -> "ERROR"
      [] s \in {"critical", "Critical", "CRITical"} -> "CRITICAL"
      [] s = "verbose"                              -> "VERBOSE"
      [] s = "warn"                                 -> "WARN"
      [] s = "debug "                               -> "DEBUG "
      [] s = "information"                          -> "INFORMATION"
      [] OTHER                                      -> s

ValueError == "ValueError"
TypeError == "TypeError"
OSError == "OSError"
RuntimeError == "RuntimeError"
Errors == {ValueError, TypeError, OSError, RuntimeError}

\* An unknown name taken for INFO instead of raising (mutant).
from_string_or_info(s) ==
    IF s # "" /\ Upper(s) \in Levels THEN Upper(s) ELSE "INFO"

\* LogLevel.from_string: a level name, or ValueError.
from_string(s) ==
    IF s = "" THEN ValueError
    ELSE IF Upper(s) \in Levels THEN Upper(s)
    ELSE ValueError

\* LogLevel.from_int: a level name, or ValueError.
from_int(n) ==
    IF n < 0 THEN ValueError
    ELSE CASE n = DEBUG    -> "DEBUG"
           [] n = INFO     -> "INFO"
           [] n = WARNING  -> "WARNING"
           [] n = ERROR    -> "ERROR"
           [] n = CRITICAL -> "CRITICAL"
           [] OTHER        -> ValueError

\* LogLevel.to_logging_level
to_logging_level(l) ==
    CASE l = "DEBUG"    -> DEBUG
      [] l = "INFO"     -> INFO
      [] l = "WARNING"  -> WARNING
      [] l = "ERROR"    -> ERROR
      [] l = "CRITICAL" -> CRITICAL

\* LoggerManager._validate_log_level: a LogLevel name, or ValueError.
ManagerValidateLevel(v) ==
    CASE v.t = "level" -> v.s
      [] v.t = "str"   -> from_string(v.s)
      [] IsInt(v)      -> from_int(v.n)
      [] OTHER         -> ValueError

\* LoggerHandler._validate_log_level: the logging-module level (val), or the
\* error raised (err).
HandlerValidateLevel(v) ==
    LET l == ManagerValidateLevel(v)
    IN  IF l = ValueError THEN [err |-> ValueError, val |-> 0]
        ELSE [err |-> "", val |-> to_logging_level(l)]

----------------------------------------------------------------------------
(* Singleton.__call__ and LoggerHandler.__init__                            *)

ParamOrder == <<"folder_path", "max_file_size", "backup_count",
                "console_level", "file_level", "console_message_format",
                "console_date_format", "file_date_format">>
ParamNames == {ParamOrder[i] : i \in DOMAIN ParamOrder}

DefaultMaxFileSize == 150 * 1024 * 1024
FallbackMaxFileSize == 500 * 1024 * 1024
DefaultBackupCount == 3

\* The defaults of LoggerHandler.__init__'s signature.
Defaults ==
    [k \in ParamNames |->
        CASE k = "folder_path"   -> StrV("./logs")
          [] k = "max_file_size" -> IntV(DefaultMaxFileSize)
          [] k = "backup_count"  -> IntV(DefaultBackupCount)
          [] k = "console_level" -> LevelV("INFO")
          [] k = "file_level"    -> LevelV("DEBUG")
          [] OTHER               -> NoneV]

NoArgs == [k \in {} |-> NoneV]

\* inspect.Signature.bind(None, *args, **kwargs): the mapping from parameter
\* names to the passed values (arguments), or TypeError (err) for an unknown
\* keyword, too many positionals or a parameter given twice.
Bind(call) ==
    LET pos == call.pos
        kw  == call.kw
    IN  IF \/ Len(pos) > Len(ParamOrder)
           \/ \E k \in DOMAIN kw : k \notin ParamNames
           \/ \E i \in 1..Len(pos) : i <= Len(ParamOrder) /\ ParamOrder[i] \in DOMAIN kw
        THEN [err |-> TypeError, arguments |-> NoArgs]
        ELSE [err |-> "",
              arguments |->
                [k \in {ParamOrder[i] : i \in 1..Len(pos)} \cup DOMAIN kw |->
                    IF k \in DOMAIN kw THEN kw[k]
                    ELSE pos[CHOOSE i \in 1..Len(pos) : ParamOrder[i] = k]]]

\* BoundArguments.apply_defaults()
ApplyDefaults(bound) ==
    [k \in ParamNames |-> IF k \in DOMAIN bound THEN bound[k] ELSE Defaults[k]]

\* make_hashable: int, str and None pass through; json.dumps raises TypeError
\* on a Path and on a LogLevel, so both fall back to repr(value), a str.
make_hashable(v) ==
    CASE v.t \in {"str", "int", "none"} -> v
      [] v.t = "bool"  -> IntV(v.n)    \* True == 1 and hash(True) == hash(1)
      [] v.t = "path"  -> StrV("PosixPath('" \o v.s \o "')")
      [] v.t = "level" ->
            StrV("<LogLevel." \o v.s \o ": '" \o LevelValue(v.s) \o "'>")

\* key = (cls, frozenset((k, make_hashable(v)) for k, v in arguments.items()))
KeyOf(arguments) == {<<k, make_hashable(arguments[k])>> : k \in ParamNames}

\* pathlib.Path(folder_path): the normalised path text.
PathOf(v) ==
    CASE v.s = "./logs"       -> "logs"
      [] v.s = "./other_logs" -> "other_logs"
      [] OTHER                -> v.s

\* LoggerHandler.__init__ on the bound arguments, when the directory can be
\* created (mkdirOk): the error raised (err), or with err = "" the attributes
\* of the new object.
HandlerInit(a, mkdirOk, enabled) ==
    LET size    == a["max_file_size"]
        backup  == a["backup_count"]
        console == IF Truthy(a["console_level"]) THEN a["console_level"]
                   ELSE LevelV("INFO")
        file    == IF Truthy(a["file_level"]) THEN a["file_level"]
                   ELSE LevelV("DEBUG")
        err     ==
            IF a["folder_path"].t \notin {"str", "path"} THEN TypeError
            ELSE IF ~mkdirOk THEN OSError
            ELSE IF size.t # "none" /\ (~IsInt(size) \/ size.n <= 0) THEN ValueError
            ELSE IF backup.t # "none" /\ (~IsInt(backup) \/ backup.n <= 0) THEN ValueError
            ELSE IF HandlerValidateLevel(console).err # "" THEN ValueError
            ELSE IF HandlerValidateLevel(file).err # "" THEN ValueError
            ELSE ""
    IN  [err |-> err,
         logging_enabled |-> enabled,
         handlers_added  |-> FALSE,
         log_dir         |-> PathOf(a["folder_path"]),
         max_size        |-> IF size.t = "none" THEN FallbackMaxFileSize ELSE size.n,
         backup_count    |-> IF backup.t = "none" THEN DefaultBackupCount ELSE backup.n,
         console_level   |-> HandlerValidateLevel(console).val,
         file_level      |-> HandlerValidateLevel(file).val]

\* The registry lookup dropped: every call constructs (mutant).
LookupAlwaysMiss(key) == FALSE

\* `key not in cls._instances`
Lookup(key) == key \in DOMAIN instances

\* Singleton.__call__(cls, *args, **kwargs) for cls = LoggerHandler, as one
\* step under cls._lock.  The result records what the caller observes.
SingletonCall(call, mkdirOk) ==
    LET bound == Bind(call)
    IN  IF bound.err # ""
        THEN /\ UNCHANGED <<instances, objects>>
             /\ history' = Append(history,
                    [call |-> call, kind |-> TypeError, key |-> {}, inst |-> 0,
                     ranInit |-> FALSE])
        ELSE LET args == ApplyDefaults(bound.arguments)
                 key  == KeyOf(args)
             IN  IF Lookup(key)
                 THEN /\ UNCHANGED <<instances, objects>>
                      /\ history' = Append(history,
                            [call |-> call, kind |-> "ok", key |-> key,
                             inst |-> instances[key], ranInit |-> FALSE])
                 ELSE LET obj == HandlerInit(args, mkdirOk, loggingEnabled)
                          id  == Cardinality(DOMAIN objects) + 1
                      IN  IF obj.err # ""
                          THEN /\ UNCHANGED <<instances, objects>>
                               /\ history' = Append(history,
                                     [call |-> call, kind |-> obj.err, key |-> key,
                                      inst |-> 0, ranInit |-> TRUE])
                          ELSE /\ objects' = objects @@ (id :> obj)
                               /\ instances' = instances @@ (key :> id)
                               /\ history' = Append(history,
                                     [call |-> call, kind |-> "ok", key |-> key,
                                      inst |-> id, ranInit |-> TRUE])

----------------------------------------------------------------------------
(* The constructions the registry specification draws from.                 *)

MaxConstructs == 3

NoKw == [k \in {} |-> NoneV]
KwCall(kw) == [pos |-> <<>>, kw |-> kw]
PosCall(pos) == [pos |-> pos, kw |-> NoKw]

FolderChoices ==
    {StrV("./logs"), StrV("./other_logs"), PathV("logs"), StrV("PosixPath('logs')")}

ArgChoices ==
    {<<"folder_path", v>> : v \in FolderChoices}
    \cup {<<"max_file_size", IntV(1024)>>, <<"max_file_size", IntV(0)>>,
          <<"max_file_size", IntV(DefaultMaxFileSize)>>,
          <<"console_level", LevelV("INFO")>>, <<"console_level", StrV("INFO")>>,
          <<"file_level", StrV("verbose")>>,
          <<"force_new_instance", BoolV(TRUE)>>}

\* The constructions of src/test.py, lines 37-49 and 131-141.
TestCalls ==
    {KwCall([k \in {"folder_path", "max_file_size", "backup_count"} |->
                CASE k = "folder_path"   -> StrV("./logs")
                  [] k = "max_file_size" -> IntV(1024)
                  [] k = "backup_count"  -> IntV(2)]),
     KwCall([k \in {"folder_path", "max_file_size", "backup_count",
                    "force_new_instance"} |->
                CASE k = "folder_path"        -> StrV("./logs")
                  [] k = "max_file_size"      -> IntV(1024)
                  [] k = "backup_count"       -> IntV(2)
                  [] k = "force_new_instance" -> BoolV(TRUE)]),
     KwCall([k \in {"folder_path", "max_file_size", "backup_count",
                    "force_new_instance"} |->
                CASE k = "folder_path"        -> StrV("./other_logs")
                  [] k = "max_file_size"      -> IntV(2048)
                  [] k = "backup_count"       -> IntV(1)
                  [] k = "force_new_instance" -> BoolV(TRUE)])}

Calls ==
    {KwCall(NoKw)}
    \cup {KwCall(a[1] :> a[2]) : a \in ArgChoices}
    \cup {PosCall(<<v>>) : v \in {StrV("./logs"), StrV("./other_logs")}}
    \cup TestCalls

MsgMkdirFailed == "Failed to create log directory"

\* One LoggerHandler(...) expression evaluated by some caller.  When the
\* constructor's mkdir fails, _validate_logging_folder reports on the
\* fallback logger before it re-raises.
Construct(call, mkdirOk) ==
    /\ Len(history) < MaxConstructs
    /\ SingletonCall(call, mkdirOk)
    /\ fallbackLog' = IF history'[Len(history')].kind = OSError
                      THEN fallbackLog \cup {MsgMkdirFailed} ELSE fallbackLog
    /\ UNCHANGED <<loggingEnabled, managers, loggers, pipelines, rootHandlers,
                   handlerListeners, sent, result, auxVars>>

\* No LoggerManager, logger or pipeline exists.
NoPipeline ==
    /\ managers = <<>>
    /\ loggers = [n \in {} |-> <<>>]
    /\ pipelines = <<>>
    /\ rootHandlers = <<>>
    /\ handlerListeners = <<>>
    /\ fallbackLog = {}
    /\ sent = <<>>
    /\ result = [op |-> "none", on |-> 0, err |-> "", ret |-> ""]

\* No function is being applied and no InstanceAdapter exists.
NoAux ==
    /\ operand = <<>>
    /\ adapter = <<>>
    /\ callers = <<>>
    /\ logFile = <<>>

RegistryInit ==
    /\ NoAux
    /\ instances = [k \in {} |-> 0]
    /\ objects = <<>>
    /\ history = <<>>
    /\ loggingEnabled \in BOOLEAN
    /\ NoPipeline

RegistryNext == \E call \in Calls, mkdirOk \in BOOLEAN : Construct(call, mkdirOk)

RegistrySpec == RegistryInit /\ [][RegistryNext]_vars

----------------------------------------------------------------------------
(* Claims about the registry, over the constructions made so far.           *)

Returned(i) == history[i].kind = "ok"
Unforced(call) == "force_new_instance" \notin DOMAIN call.kw

\* The two calls bind, and their arguments are equal once defaults are applied.
SameArguments(c1, c2) ==
    /\ Bind(c1).err = "" /\ Bind(c2).err = ""
    /\ ApplyDefaults(Bind(c1).arguments) = ApplyDefaults(Bind(c2).arguments)

\* The two calls bind, and some parameter has a different value.
DifferentArguments(c1, c2) ==
    /\ Bind(c1).err = "" /\ Bind(c2).err = ""
    /\ ApplyDefaults(Bind(c1).arguments) # ApplyDefaults(Bind(c2).arguments)

\* C1: after any earlier constructions, two LoggerHandler constructions whose
\* arguments are equal once defaults are applied (positional, keyword or
\* omitted) return the identical instance, and __init__ is not run again.
C1_EqualArgumentsSameInstance ==
    \A i, j \in DOMAIN history :
        (i < j /\ Returned(i) /\ Returned(j)
         /\ SameArguments(history[i].call, history[j].call))
        => /\ history[j].inst = history[i].inst
           /\ ~history[j].ranInit

\* C1 witness: a default-omitting, a keyword and a positional form of the
\* same configuration have all been constructed.
C1_Witness ==
    /\ Len(history) = 3
    /\ \A i \in 1..3 : Returned(i)
    /\ history[1].call = KwCall(NoKw)
    /\ history[2].call = KwCall("folder_path" :> StrV("./logs"))
    /\ history[3].call = PosCall(<<StrV("./logs")>>)

\* C2: once an instance exists, a construction without force_new_instance
\* that returns, returns that first instance, whose log_dir, max_size and
\* backup_count are those of the first construction.
C2_FirstWriterWins ==
    \A i, j \in DOMAIN history :
        (i < j /\ Returned(i) /\ (\A k \in 1..(i - 1) : ~Returned(k))
         /\ Unforced(history[j].call) /\ Returned(j))
        => LET first == ApplyDefaults(Bind(history[i].call).arguments)
               obj   == objects[history[j].inst]
           IN  /\ history[j].inst = history[i].inst
               /\ obj.log_dir = PathOf(first["folder_path"])
               /\ obj.max_size = first["max_file_size"].n
               /\ obj.backup_count = first["backup_count"].n

\* C3: a construction with force_new_instance=True made when an instance
\* exists is not rejected, and when it returns it returns an instance other
\* than every earlier one, carrying the configuration of the forcing call.
C3_ForceNewInstanceReplaces ==
    \A j \in DOMAIN history :
        (~Unforced(history[j].call) /\ \E i \in 1..(j - 1) : Returned(i))
        => /\ history[j].kind # TypeError
           /\ Returned(j) =>
                /\ \A i \in 1..(j - 1) : history[i].inst # history[j].inst
                /\ history[j].ranInit

\* C4: two parameter sets that differ in at least one parameter value get
\* different registry keys.
C4_FingerprintInjective ==
    \A i, j \in DOMAIN history :
        DifferentArguments(history[i].call, history[j].call)
        => history[i].key # history[j].key

----------------------------------------------------------------------------
(* LoggerManager: the queue/listener pipeline.                              *)

NOTSET == 0

\* LoggerManager.__init__ with valid arguments: the attributes of the handle.
\* logger = "" and listener = 0 are the class attributes' None.
ManagerInit(module_name, project_name, console_level, file_level) ==
    [name          |-> module_name,
     project_name  |-> IF project_name = "" THEN module_name ELSE project_name,
     console_level |-> ManagerValidateLevel(console_level),
     file_level    |-> ManagerValidateLevel(file_level),
     logger        |-> "",
     listener      |-> 0]

\* logging.getLogger(name).handlers
HandlersOf(name) == IF name \in DOMAIN loggers THEN loggers[name] ELSE <<>>

\* The early return of setup_logger dropped (mutant).
AlreadySetUpNever(m, force) == FALSE

\* `self.logger is not None and not force`
AlreadySetUp(m, force) == m.logger # "" /\ ~force

\* The handlers left on the logger when nothing is removed (mutant).
ClearedHandlersKept(m, force) == HandlersOf(m.name)

\* `for handler in self.logger.handlers[:]: removeHandler; close`, run only
\* when the handle is set up and force is given: the handlers left.
ClearedHandlers(m, force) ==
    IF m.logger # "" /\ force THEN <<>> ELSE HandlersOf(m.name)

\* The pair built by _setup_handlers: the queue behind the QueueHandler and
\* the QueueListener with its console and file handlers.  enq is the record
\* of every event put on the queue, in put order.  thread is the listener
\* thread started by _start_listener; stop is the position of the
\* listener.stop registered with atexit ("no": not called), stopAt and
\* backlog the lengths of enq and of the queue when it was called.
NewPipeline(h, m) ==
    [owner         |-> h,
     queue         |-> <<>>,
     enq           |-> <<>>,
     console_level |-> to_logging_level(m.console_level),
     file_level    |-> to_logging_level(m.file_level),
     console       |-> <<>>,
     file          |-> <<>>,
     thread        |-> "running",
     stop          |-> "no",
     stopAt        |-> 0,
     backlog       |-> 0]

QueueHandlerOf(p) == [kind |-> "QueueHandler", level |-> NOTSET, pipeline |-> p]

\* LoggerManager.setup_logger(force) on handle h.  mkdirOk: log_dir.mkdir
\* succeeds; fileOk: RotatingFileHandler opens the log file.
SetupLogger(h, force, mkdirOk, fileOk) ==
    LET m == managers[h]
    IN  IF AlreadySetUp(m, force)
        THEN /\ result' = [op |-> "setup_logger", on |-> h, err |-> "", ret |-> m.logger]
             /\ UNCHANGED <<managers, loggers, pipelines>>
        ELSE IF ~mkdirOk \/ ~fileOk
        THEN /\ managers' = [managers EXCEPT ![h].logger = m.name]
             /\ loggers' = [loggers EXCEPT ![m.name] = ClearedHandlers(m, force)]
             /\ result' = [op |-> "setup_logger", on |-> h, err |-> OSError, ret |-> ""]
             /\ UNCHANGED pipelines
        ELSE /\ LET p == Len(pipelines) + 1
                IN  /\ pipelines' = Append(pipelines, NewPipeline(h, m))
                    /\ loggers' = [loggers EXCEPT ![m.name] =
                            Append(ClearedHandlers(m, force), QueueHandlerOf(p))]
                    /\ managers' = [managers EXCEPT ![h].logger = m.name,
                                                    ![h].listener = p]
             /\ result' = [op |-> "setup_logger", on |-> h, err |-> "", ret |-> m.name]

\* The call builds a pipeline only while fewer than cap have been built.
WithinPipelines(cap, h, force, mkdirOk, fileOk) ==
    (~AlreadySetUp(managers[h], force) /\ mkdirOk /\ fileOk)
    => Len(pipelines) < cap

SetupLoggerStep(h, force, mkdirOk, fileOk) ==
    /\ SetupLogger(h, force, mkdirOk, fileOk)
    /\ UNCHANGED <<auxVars, regVars, rootHandlers, handlerListeners, fallbackLog, sent>>

\* The not-initialized guard dropped (mutant).
NotInitializedNever(m) == FALSE

\* `if self.logger is None`
NotInitialized(m) == m.logger = ""

MsgNotInitialized == "No logger was initialized, content addressed to fallback."

\* Queue.put at the front of the queue (mutant).
EnqueueFront(q, e) == <<e>> \o q

\* QueueHandler.emit -> Queue.put_nowait on the unbounded queue.Queue(-1)
Enqueue(q, e) == Append(q, e)

\* Logger.callHandlers: the record goes to every handler of the logger whose
\* level admits it; a QueueHandler puts it on its queue.
Deliver(ps, hs, e) ==
    [p \in DOMAIN ps |->
        IF \E i \in DOMAIN hs :
              /\ hs[i].pipeline = p
              /\ to_logging_level(e.lvl) >= hs[i].level
        THEN [ps[p] EXCEPT !.queue = Enqueue(@, e), !.enq = Append(@, e)]
        ELSE ps[p]]

\* Logger.callHandlers, continued: the logger propagates to the root logger,
\* whose handlers (added by LoggerHandler.setup) write in the calling thread.
Propagate(hs, e) ==
    [i \in DOMAIN hs |->
        IF to_logging_level(e.lvl) >= hs[i].level
        THEN [hs[i] EXCEPT !.out = Append(@, e)]
        ELSE hs[i]]

MsgBadLevelType == "No logger was initialized because log level type is incorrect."

\* What _validate_log_level reports on the fallback logger before it raises.
LevelReports(v) == IF v.t \in {"level", "str"} \/ IsInt(v) THEN {} ELSE {MsgBadLevelType}

\* LoggerManager.log_message(message, level, exc_info, extra) called by
\* producer thread t on handle h; level is the Python value passed.
LogMessage(t, h, level, exc_info) ==
    LET m   == managers[h]
        arg == IF level.t = "none" THEN LevelV("INFO") ELSE level
        lvl == ManagerValidateLevel(arg)
        e   == [src |-> t, n |-> sent[t] + 1, lvl |-> lvl, via |-> h]
    IN  /\ sent' = [sent EXCEPT ![t] = @ + 1]
        /\ IF NotInitialized(m)
           THEN /\ fallbackLog' = fallbackLog \cup {MsgNotInitialized}
                /\ result' = [op |-> "log_message", on |-> h, err |-> RuntimeError, ret |-> ""]
                /\ UNCHANGED <<pipelines, rootHandlers>>
           ELSE IF lvl = ValueError
           THEN /\ fallbackLog' = fallbackLog \cup LevelReports(arg)
                /\ result' = [op |-> "log_message", on |-> h, err |-> ValueError, ret |-> ""]
                /\ UNCHANGED <<pipelines, rootHandlers>>
           ELSE /\ pipelines' = Deliver(pipelines, HandlersOf(m.logger), e)
                /\ rootHandlers' = Propagate(rootHandlers, e)
                /\ result' = [op |-> "log_message", on |-> h, err |-> "", ret |-> ""]
                /\ UNCHANGED fallbackLog

LogMessageStep(t, h, level, exc_info) ==
    /\ LogMessage(t, h, level, exc_info)
    /\ UNCHANGED <<auxVars, regVars, managers, loggers, handlerListeners>>

\* respect_handler_level ignored: every record goes to every handler (mutant).
AdmitsAll(handlerLevel, e) == TRUE

\* QueueListener.handle with respect_handler_level=True:
\* `record.levelno >= handler.level`
Admits(handlerLevel, e) == to_logging_level(e.lvl) >= handlerLevel

\* QueueListener._sentinel, the object stop() puts on the queue.
Sentinel == [src |-> 0, n |-> 0, lvl |-> "", via |-> 0]

\* One turn of QueueListener._monitor, the listener thread of pipeline p:
\* dequeue the oldest record; on the sentinel the thread ends, any other
\* record is handed to the console handler, then to the file handler.
Dispatch(p) ==
    /\ pipelines[p].thread = "running"
    /\ pipelines[p].queue # <<>>
    /\ LET e == Head(pipelines[p].queue)
       IN  IF e = Sentinel
           THEN pipelines' = [pipelines EXCEPT ![p].queue  = Tail(@),
                                               ![p].thread = "ended"]
           ELSE pipelines' = [pipelines EXCEPT
                  ![p].queue   = Tail(@),
                  ![p].console = IF Admits(pipelines[p].console_level, e)
                                 THEN Append(@, e) ELSE @,
                  ![p].file    = IF Admits(pipelines[p].file_level, e)
                                 THEN Append(@, e) ELSE @]
    /\ UNCHANGED <<auxVars, regVars, managers, loggers, rootHandlers, handlerListeners,
                   fallbackLog, sent, result>>

\* QueueListener.stop, first half, as run by atexit for the listener of
\* pipeline p: enqueue_sentinel(), then the caller waits in _thread.join().
ListenerStop(p) ==
    /\ pipelines[p].stop = "no"
    /\ pipelines' = [pipelines EXCEPT
            ![p].queue   = Enqueue(@, Sentinel),
            ![p].stop    = "joining",
            ![p].stopAt  = Len(pipelines[p].enq),
            ![p].backlog = Len(pipelines[p].queue)]
    /\ UNCHANGED <<auxVars, regVars, managers, loggers, rootHandlers, handlerListeners,
                   fallbackLog, sent, result>>

\* join() returns at once (mutant).
JoinedAtOnce(p) == TRUE

\* Thread.join(): returns when the listener thread has ended.
Joined(p) == p.thread = "ended"

\* QueueListener.stop, second half: _thread.join() returns, stop returns.
ListenerStopReturn(p) ==
    /\ pipelines[p].stop = "joining"
    /\ Joined(pipelines[p])
    /\ pipelines' = [pipelines EXCEPT ![p].stop = "returned"]
    /\ UNCHANGED <<auxVars, regVars, managers, loggers, rootHandlers, handlerListeners,
                   fallbackLog, sent, result>>

\* isinstance(handler, logging.StreamHandler): RotatingFileHandler derives
\* from StreamHandler, QueueHandler does not.
IsStreamHandler(handler) == handler.kind \in {"StreamHandler", "RotatingFileHandler"}

\* The loop of update_levels over self.logger.handlers.
RelevelHandlers(hs, console_level, file_level) ==
    [i \in DOMAIN hs |->
        IF IsStreamHandler(hs[i])
        THEN [hs[i] EXCEPT !.level = to_logging_level(console_level)]
        ELSE IF hs[i].kind = "RotatingFileHandler"
        THEN [hs[i] EXCEPT !.level = to_logging_level(file_level)]
        ELSE hs[i]]

\* LoggerManager.update_levels(console_level, file_level) on handle h.
UpdateLevels(h, console_level, file_level) ==
    LET m == managers[h]
        c == ManagerValidateLevel(console_level)
        f == ManagerValidateLevel(file_level)
    IN  IF NotInitialized(m)
        THEN /\ fallbackLog' = fallbackLog \cup {MsgNotInitialized}
             /\ result' = [op |-> "update_levels", on |-> h, err |-> RuntimeError, ret |-> ""]
             /\ UNCHANGED <<managers, loggers>>
        ELSE IF c = ValueError
        THEN /\ fallbackLog' = fallbackLog \cup LevelReports(console_level)
             /\ result' = [op |-> "update_levels", on |-> h, err |-> ValueError, ret |-> ""]
             /\ UNCHANGED <<managers, loggers>>
        ELSE IF f = ValueError
        THEN /\ managers' = [managers EXCEPT ![h].console_level = c]
             /\ fallbackLog' = fallbackLog \cup LevelReports(file_level)
             /\ result' = [op |-> "update_levels", on |-> h, err |-> ValueError, ret |-> ""]
             /\ UNCHANGED loggers
        ELSE /\ managers' = [managers EXCEPT ![h].console_level = c,
                                             ![h].file_level = f]
             /\ loggers' = [loggers EXCEPT ![m.logger] =
                                RelevelHandlers(@, c, f)]
             /\ result' = [op |-> "update_levels", on |-> h, err |-> "", ret |-> ""]
             /\ UNCHANGED fallbackLog

UpdateLevelsStep(h, console_level, file_level) ==
    /\ UpdateLevels(h, console_level, file_level)
    /\ UNCHANGED <<auxVars, regVars, pipelines, rootHandlers, handlerListeners, sent>>

----------------------------------------------------------------------------
(* LoggerHandler.setup                                                      *)

MsgListenerFailed == "Failed to start QueueListener"

\* The _handlers_added guard dropped (mutant).
HandlersAddedNever(obj) == FALSE

\* `if self._handlers_added`
HandlersAdded(obj) == obj.handlers_added

\* LoggerHandler.setup(component) on instance i.  fileOk: RotatingFileHandler
\* opens the log file; startOk: listener.start() does not raise.
HandlerSetup(i, fileOk, startOk) ==
    LET obj == objects[i]
    IN  IF ~obj.logging_enabled
        THEN /\ result' = [op |-> "setup", on |-> i, err |-> "", ret |-> ""]
             /\ UNCHANGED <<objects, rootHandlers, handlerListeners, fallbackLog>>
        ELSE IF HandlersAdded(obj)
        THEN /\ result' = [op |-> "setup", on |-> i, err |-> "", ret |-> ""]
             /\ UNCHANGED <<objects, rootHandlers, handlerListeners, fallbackLog>>
        ELSE IF ~fileOk
        THEN /\ result' = [op |-> "setup", on |-> i, err |-> OSError, ret |-> ""]
             /\ UNCHANGED <<objects, rootHandlers, handlerListeners, fallbackLog>>
        ELSE /\ rootHandlers' = rootHandlers \o
                    <<[kind |-> "StreamHandler", level |-> obj.console_level,
                       inst |-> i, out |-> <<>>],
                      [kind |-> "RotatingFileHandler", level |-> obj.file_level,
                       inst |-> i, out |-> <<>>]>>
             /\ handlerListeners' = Append(handlerListeners,
                    [inst |-> i, started |-> startOk])
             /\ fallbackLog' = IF startOk THEN fallbackLog
                               ELSE fallbackLog \cup {MsgListenerFailed}
             /\ objects' = [objects EXCEPT ![i].handlers_added = TRUE]
             /\ result' = [op |-> "setup", on |-> i, err |-> "", ret |-> ""]

HandlerSetupStep(i, fileOk, startOk) ==
    /\ HandlerSetup(i, fileOk, startOk)
    /\ UNCHANGED <<auxVars, instances, history, loggingEnabled, managers, loggers,
                   pipelines, sent>>

----------------------------------------------------------------------------
(* The lifecycle specification: two LoggerManager handles built with the    *)
(* same module_name, one producer thread, no LoggerHandler.                 *)

MaxPipelines == 2
MaxEmit == 1

Handles == {1, 2}
ModuleName == "ai_tools"
ProjectName == "docatlas"

\* The levels log_message is called with: omitted, a name in lower case,
\* and a name that is no level.
LogLevelArgs == {NoneV, StrV("debug"), StrV("verbose")}

NoRegistry ==
    /\ instances = [k \in {} |-> 0]
    /\ objects = <<>>
    /\ history = <<>>
    /\ loggingEnabled = TRUE

Init ==
    /\ NoAux
    /\ NoRegistry
    /\ managers = [h \in Handles |->
            ManagerInit(ModuleName, ProjectName, LevelV("INFO"), LevelV("DEBUG"))]
    /\ loggers = (ModuleName :> <<>>)
    /\ pipelines = <<>>
    /\ rootHandlers = <<>>
    /\ handlerListeners = <<>>
    /\ fallbackLog = {}
    /\ sent = [t \in {1} |-> 0]
    /\ result = [op |-> "none", on |-> 0, err |-> "", ret |-> ""]

Next ==
    \/ \E h \in DOMAIN managers, force, mkdirOk, fileOk \in BOOLEAN :
            /\ WithinPipelines(MaxPipelines, h, force, mkdirOk, fileOk)
            /\ SetupLoggerStep(h, force, mkdirOk, fileOk)
    \/ \E t \in DOMAIN sent, h \in DOMAIN managers, level \in LogLevelArgs,
          exc_info \in BOOLEAN :
            /\ sent[t] < MaxEmit
            /\ LogMessageStep(t, h, level, exc_info)
    \/ \E p \in DOMAIN pipelines : Dispatch(p)

Spec == Init /\ [][Next]_vars

----------------------------------------------------------------------------
(* The LoggerHandler specification: the instance built when storage_utils   *)
(* is imported, LoggerHandler.setup, and one LoggerManager handle whose     *)
(* records propagate to the root logger.                                    *)

\* The LoggerHandler() evaluated when storage_utils is imported.
ImportedHandler ==
    /\ loggingEnabled \in BOOLEAN
    /\ LET args == ApplyDefaults(Bind(KwCall(NoKw)).arguments)
       IN  /\ objects = <<HandlerInit(args, TRUE, loggingEnabled)>>
           /\ instances = (KeyOf(args) :> 1)
           /\ history = <<[call |-> KwCall(NoKw), kind |-> "ok", key |-> KeyOf(args),
                           inst |-> 1, ranInit |-> TRUE]>>

HandlerInitState ==
    /\ NoAux
    /\ ImportedHandler
    /\ managers = [h \in {1} |->
            ManagerInit(ModuleName, ProjectName, LevelV("INFO"), LevelV("DEBUG"))]
    /\ loggers = (ModuleName :> <<>>)
    /\ pipelines = <<>>
    /\ rootHandlers = <<>>
    /\ handlerListeners = <<>>
    /\ fallbackLog = {}
    /\ sent = [t \in {1} |-> 0]
    /\ result = [op |-> "none", on |-> 0, err |-> "", ret |-> ""]

HandlerNext ==
    \/ \E i \in DOMAIN objects, fileOk, startOk \in BOOLEAN :
            HandlerSetupStep(i, fileOk, startOk)
    \/ \E h \in DOMAIN managers, force, mkdirOk, fileOk \in BOOLEAN :
            /\ WithinPipelines(MaxPipelines, h, force, mkdirOk, fileOk)
            /\ SetupLoggerStep(h, force, mkdirOk, fileOk)
    \/ \E t \in DOMAIN sent, h \in DOMAIN managers, level \in LogLevelArgs,
          exc_info \in BOOLEAN :
            /\ sent[t] < MaxEmit
            /\ LogMessageStep(t, h, level, exc_info)
    \/ \E p \in DOMAIN pipelines : Dispatch(p)

HandlerSpec == HandlerInitState /\ [][HandlerNext]_vars

----------------------------------------------------------------------------
(* Claims about the lifecycle of a handle.                                  *)

\* C5: LoggerManager.setup_logger(force=False) on a handle that is already
\* set up returns the logger the handle holds and changes nothing (no
\* handler, queue or listener is added); LoggerHandler.setup on an instance
\* whose handlers are added adds no handler and no listener.
C5_SetupIdempotentWithoutForce ==
    [][/\ \A h \in DOMAIN managers, mkdirOk, fileOk \in BOOLEAN :
            (managers[h].logger # "" /\ SetupLoggerStep(h, FALSE, mkdirOk, fileOk))
            => /\ result'.err = ""
               /\ result'.ret = managers[h].logger
               /\ UNCHANGED <<managers, loggers, pipelines, rootHandlers,
                              handlerListeners>>
       /\ \A i \in DOMAIN objects, fileOk, startOk \in BOOLEAN :
            (objects[i].handlers_added /\ HandlerSetupStep(i, fileOk, startOk))
            => UNCHANGED <<objects, rootHandlers, handlerListeners, loggers,
                           pipelines>>]_vars

\* C5 witness: the handle was set up, a record went through its pipeline and
\* through the root handlers LoggerHandler.setup added, and the last call is
\* a setup_logger that returned the logger with the pipeline still in place.
C5_Witness ==
    /\ result.op = "setup_logger" /\ result.err = "" /\ result.ret = ModuleName
    /\ managers[1].listener # 0
    /\ pipelines[managers[1].listener].enq # <<>>
    /\ Len(loggers[ModuleName]) = 1
    /\ Len(rootHandlers) = 2 /\ rootHandlers[1].out # <<>>

\* setup_logger(force=True) returns normally on a handle whose pipeline runs.
ForceOnRunning(h) ==
    /\ managers[h].listener # 0
    /\ \E mkdirOk, fileOk \in BOOLEAN : SetupLoggerStep(h, TRUE, mkdirOk, fileOk)
    /\ result'.err = ""

\* Pipeline p was built by a handle that has since built another one.
Superseded(p) == managers[pipelines[p].owner].listener # p

\* A superseded pipeline gets no new record on its queue.
SupersededAcceptNothing ==
    \A p \in DOMAIN pipelines :
        Superseded(p) => pipelines'[p].enq = pipelines[p].enq

\* C6 (as claimed): setup_logger(force=True) on a running handle returns a
\* handle distinct from the one the previous setup returned, and the old
\* pipeline accepts no new events from then on.
C6_ForceReturnsDistinctHandle ==
    [][/\ \A h \in DOMAIN managers :
            ForceOnRunning(h) => result'.ret # managers[h].logger
       /\ SupersededAcceptNothing]_vars

\* C6 (amended): setup_logger(force=True) on a running handle returns the
\* same logger object as before, now attached to a new, empty queue with a
\* new listener, and the old pipeline accepts no new events from then on.
C6_ForceReconfiguresSameLogger ==
    [][/\ \A h \in DOMAIN managers :
            ForceOnRunning(h)
            => /\ result'.ret = managers[h].logger
               /\ managers'[h].listener \notin DOMAIN pipelines
               /\ pipelines'[managers'[h].listener].enq = <<>>
               /\ \A i \in DOMAIN loggers'[managers[h].name] :
                     loggers'[managers[h].name][i].pipeline = managers'[h].listener
       /\ SupersededAcceptNothing]_vars

\* C6 witness: a handle has replaced its pipeline and a record emitted
\* afterwards is on the new queue.
C6_Witness ==
    \E p \in DOMAIN pipelines :
        /\ Superseded(p)
        /\ pipelines[managers[pipelines[p].owner].listener].enq # <<>>
        /\ result.op = "log_message"

----------------------------------------------------------------------------
(* The level specification: one handle, built with console_level INFO and   *)
(* file_level DEBUG, whose levels are changed by update_levels while one    *)
(* producer thread emits.                                                   *)

MaxLevelPipelines == 1
MaxLevelEmit == 2

\* The levels update_levels is called with: the int of logging.ERROR and a
\* name that is no level.
UpdateLevelArgs == {IntV(ERROR), StrV("verbose")}

\* The levels log_message is called with: a lower-case name, omitted (INFO),
\* and a LogLevel member.
EmitLevelArgs == {StrV("debug"), NoneV, LevelV("ERROR")}

LevelInit ==
    /\ NoAux
    /\ NoRegistry
    /\ managers = [h \in {1} |->
            ManagerInit(ModuleName, ProjectName, LevelV("INFO"), LevelV("DEBUG"))]
    /\ loggers = (ModuleName :> <<>>)
    /\ pipelines = <<>>
    /\ rootHandlers = <<>>
    /\ handlerListeners = <<>>
    /\ fallbackLog = {}
    /\ sent = [t \in {1} |-> 0]
    /\ result = [op |-> "none", on |-> 0, err |-> "", ret |-> ""]

LevelNext ==
    \/ \E h \in DOMAIN managers, force, mkdirOk, fileOk \in BOOLEAN :
            /\ WithinPipelines(MaxLevelPipelines, h, force, mkdirOk, fileOk)
            /\ SetupLoggerStep(h, force, mkdirOk, fileOk)
    \/ \E h \in DOMAIN managers, console_level, file_level \in UpdateLevelArgs :
            UpdateLevelsStep(h, console_level, file_level)
    \/ \E t \in DOMAIN sent, h \in DOMAIN managers, level \in EmitLevelArgs,
          exc_info \in BOOLEAN :
            /\ sent[t] < MaxLevelEmit
            /\ LogMessageStep(t, h, level, exc_info)
    \/ \E p \in DOMAIN pipelines : Dispatch(p)

LevelSpec == LevelInit /\ [][LevelNext]_vars

----------------------------------------------------------------------------
(* Claims about the levels of the sinks.                                    *)

\* C8 (as claimed): when update_levels(c, f) returns normally on a handle
\* whose pipeline runs, the thresholds the console and the file sink of that
\* pipeline apply to the records they are handed are c and f.
C8_UpdateLevelsAppliedBySinks ==
    [][\A h \in DOMAIN managers, c, f \in UpdateLevelArgs :
          (/\ managers[h].listener # 0
           /\ UpdateLevelsStep(h, c, f)
           /\ result'.err = "")
          => LET p == pipelines'[managers'[h].listener]
             IN  /\ p.console_level = to_logging_level(ManagerValidateLevel(c))
                 /\ p.file_level = to_logging_level(ManagerValidateLevel(f))]_vars

\* The records the listener of pipeline p has taken off its queue, oldest
\* first.
Handled(p) == SubSeq(p.enq, 1, Len(p.enq) - Len(p.queue))

Range(seq) == {seq[i] : i \in DOMAIN seq}

\* C9: every record a listener has taken off its queue is written to the
\* console sink iff its severity is at least the level set on the console
\* handler, and to the file sink iff its severity is at least the level set
\* on the file handler, each independently of the other; a record that was
\* not put on the queue is in neither sink.
C9_PerSinkFiltering ==
    \A i \in DOMAIN pipelines :
        LET p == pipelines[i]
        IN  /\ \A e \in Range(Handled(p)) :
                  /\ e \in Range(p.console)
                        <=> to_logging_level(e.lvl) >= p.console_level
                  /\ e \in Range(p.file)
                        <=> to_logging_level(e.lvl) >= p.file_level
            /\ Range(p.console) \cup Range(p.file) \subseteq Range(Handled(p))

\* C9 witness: with console INFO and file DEBUG, an INFO record and a DEBUG
\* record have been handled; the INFO record is in both sinks, the DEBUG
\* record in the file sink only.
C9_Witness ==
    \E i \in DOMAIN pipelines :
        LET p == pipelines[i]
        IN  /\ p.console_level = INFO /\ p.file_level = DEBUG
            /\ p.queue = <<>>
            /\ \E d, e \in Range(p.enq) :
                  /\ d.lvl = "DEBUG" /\ e.lvl = "INFO"
                  /\ e \in Range(p.console) /\ e \in Range(p.file)
                  /\ d \notin Range(p.console) /\ d \in Range(p.file)

----------------------------------------------------------------------------
(* The ordering specification: one handle, built with console_level INFO    *)
(* and file_level DEBUG, on which two producer threads call log_message.    *)

MaxFifoPipelines == 2
MaxFifoEmit == 3

Producers == {1, 2}

\* The number of log_message calls made so far by the two producers.
TotalSent == sent[1] + sent[2]

\* The levels the producers log at: one only the file sink admits, and the
\* default, which both sinks admit.
FifoLevelArgs == {StrV("debug"), NoneV}

FifoInit ==
    /\ NoAux
    /\ NoRegistry
    /\ managers = [h \in {1} |->
            ManagerInit(ModuleName, ProjectName, LevelV("INFO"), LevelV("DEBUG"))]
    /\ loggers = (ModuleName :> <<>>)
    /\ pipelines = <<>>
    /\ rootHandlers = <<>>
    /\ handlerListeners = <<>>
    /\ fallbackLog = {}
    /\ sent = [t \in Producers |-> 0]
    /\ result = [op |-> "none", on |-> 0, err |-> "", ret |-> ""]

FifoNext ==
    \/ \E h \in DOMAIN managers, force, mkdirOk, fileOk \in BOOLEAN :
            /\ WithinPipelines(MaxFifoPipelines, h, force, mkdirOk, fileOk)
            /\ SetupLoggerStep(h, force, mkdirOk, fileOk)
    \/ \E t \in DOMAIN sent, h \in DOMAIN managers, level \in FifoLevelArgs,
          exc_info \in BOOLEAN :
            /\ TotalSent < MaxFifoEmit
            /\ LogMessageStep(t, h, level, exc_info)
    \/ \E p \in DOMAIN pipelines : Dispatch(p)

FifoSpec == FifoInit /\ [][FifoNext]_vars

----------------------------------------------------------------------------
(* Claims about the order of delivery.                                      *)

\* The records of seq that a handler at the given level admits, in the order
\* of seq.
Admitted(seq, handlerLevel) ==
    SelectSeq(seq, LAMBDA e : to_logging_level(e.lvl) >= handlerLevel)

\* Producer t's records in seq carry increasing emission numbers.
InEmissionOrder(seq, t) ==
    \A i, j \in DOMAIN seq :
        (i < j /\ seq[i].src = t /\ seq[j].src = t) => seq[i].n < seq[j].n

\* C10: for each queue and its listener, the records still queued are the
\* newest ones put on it, in put order; the sequence written to the console
\* sink and the sequence written to the file sink are the put order of the
\* records taken off the queue, restricted to the records the sink admits;
\* and each producer's records appear in every sink in the order the
\* producer emitted them.
C10_GlobalFifoPerSink ==
    \A i \in DOMAIN pipelines :
        LET p == pipelines[i]
        IN  /\ Len(p.queue) <= Len(p.enq)
            /\ p.enq = Handled(p) \o p.queue
            /\ p.console = Admitted(Handled(p), p.console_level)
            /\ p.file = Admitted(Handled(p), p.file_level)
            /\ \A t \in DOMAIN sent :
                  /\ InEmissionOrder(p.enq, t)
                  /\ InEmissionOrder(p.console, t)
                  /\ InEmissionOrder(p.file, t)

\* C10 witness: one producer has emitted between two emissions of the
\* other, the three records are written to the file sink in that order and
\* only some of them to the console sink.
C10_Witness ==
    \E i \in DOMAIN pipelines :
        LET p == pipelines[i]
        IN  /\ Len(p.file) = 3 /\ p.queue = <<>>
            /\ p.file[1].src = 1 /\ p.file[2].src = 2 /\ p.file[3].src = 1
            /\ Len(p.console) \in {1, 2}

----------------------------------------------------------------------------
(* The shutdown specification: one handle and one producer thread; the      *)
(* listener.stop registered with atexit is run for any listener, and the    *)
(* producer may go on calling the handle.                                   *)

MaxStopPipelines == 1
MaxStopEmit == 2

\* The levels log_message is called with: omitted (INFO) and a lower-case
\* name only the file sink admits.
StopLevelArgs == {NoneV, StrV("debug")}

\* The level update_levels is called with.
StopUpdateArgs == {LevelV("WARNING")}

StopNext ==
    \/ \E h \in DOMAIN managers, force, mkdirOk, fileOk \in BOOLEAN :
            /\ WithinPipelines(MaxStopPipelines, h, force, mkdirOk, fileOk)
            /\ SetupLoggerStep(h, force, mkdirOk, fileOk)
    \/ \E t \in DOMAIN sent, h \in DOMAIN managers, level \in StopLevelArgs,
          exc_info \in BOOLEAN :
            /\ sent[t] < MaxStopEmit
            /\ LogMessageStep(t, h, level, exc_info)
    \/ \E h \in DOMAIN managers, console_level, file_level \in StopUpdateArgs :
            UpdateLevelsStep(h, console_level, file_level)
    \/ \E p \in DOMAIN pipelines : Dispatch(p)
    \/ \E p \in DOMAIN pipelines : ListenerStop(p)
    \/ \E p \in DOMAIN pipelines : ListenerStopReturn(p)

StopSpec == LevelInit /\ [][StopNext]_vars

----------------------------------------------------------------------------
(* Claims about shutdown.                                                   *)

\* The records put on the queue of pipeline p before stop was called.
PutBeforeStop(p) == SubSeq(p.enq, 1, p.stopAt)

\* No record occurs twice in seq.
NoDuplicate(seq) == \A i, j \in DOMAIN seq : seq[i] = seq[j] => i = j

\* C11: when listener.stop has returned, every record that was put on the
\* queue before stop was called has been taken off it and written, exactly
\* once and in put order, to the console sink if the console handler admits
\* it and to the file sink if the file handler admits it.
C11_DrainOnStop ==
    \A i \in DOMAIN pipelines :
        LET p == pipelines[i]
        IN  p.stop = "returned"
            => /\ p.console = Admitted(PutBeforeStop(p), p.console_level)
               /\ p.file = Admitted(PutBeforeStop(p), p.file_level)
               /\ NoDuplicate(p.console) /\ NoDuplicate(p.file)
               /\ \A k \in DOMAIN p.queue : p.queue[k] \notin Range(PutBeforeStop(p))

\* C11 witness: stop was called while two records were still queued, it has
\* returned, and both records are in the file sink.
C11_Witness ==
    \E i \in DOMAIN pipelines :
        LET p == pipelines[i]
        IN  /\ p.stop = "returned"
            /\ p.backlog = 2 /\ p.stopAt = 2
            /\ Len(p.file) = 2 /\ Len(p.console) = 1

\* The listener of handle h has been stopped.
Stopped(h) ==
    /\ managers[h].listener # 0
    /\ pipelines[managers[h].listener].stop = "returned"

\* C12 (as claimed): on a handle whose listener has been stopped,
\* log_message and update_levels are rejected: they raise and put nothing on
\* the queue.
C12_RejectedWhenStopped ==
    [][/\ \A t \in DOMAIN sent, h \in DOMAIN managers, level \in StopLevelArgs,
            exc_info \in BOOLEAN :
              (Stopped(h) /\ LogMessageStep(t, h, level, exc_info))
              => (result'.err # "" /\ UNCHANGED pipelines)
       /\ \A h \in DOMAIN managers, c, f \in StopUpdateArgs :
              (Stopped(h) /\ UpdateLevelsStep(h, c, f))
              => result'.err # ""]_vars

----------------------------------------------------------------------------
(* Claims about who writes to the sinks.                                    *)

\* What has been written to every console stream and every log file: by the
\* handlers of the listeners and by the handlers on the root logger.
Written ==
    <<[p \in DOMAIN pipelines |-> <<pipelines[p].console, pipelines[p].file>>],
      [i \in DOMAIN rootHandlers |-> rootHandlers[i].out]>>

\* C13 (as claimed): a thread that calls log_message only puts the record on
\* a queue; during the call nothing is written to a console stream or a log
\* file.
C13_ProducersOnlyEnqueue ==
    [][\A t \in DOMAIN sent, h \in DOMAIN managers, level \in LogLevelArgs,
          exc_info \in BOOLEAN :
            LogMessageStep(t, h, level, exc_info) => Written' = Written]_vars

----------------------------------------------------------------------------
(* The conversion specification: LogLevel.from_string and LogLevel.from_int *)
(* applied to one argument.                                                 *)

MaxCode == 55

\* The spellings of each level name the conversions are given.
NameForms ==
    [l \in Levels |->
        CASE l = "DEBUG"    -> {"DEBUG", "debug", "Debug", "dEbUg"}
          [] l = "INFO"     -> {"INFO", "info", "Info", "iNfO"}
          [] l = "WARNING"  -> {"WARNING", "warning", "Warning", "WARNing"}
          [] l = "ERROR"    -> {"ERROR", "error", "Error", "eRROR"}
          [] l = "CRITICAL" -> {"CRITICAL", "critical", "Critical", "CRITical"}]

\* Strings that spell no level.
OtherNames == {"", "verbose", "warn", "debug ", "information", "10", "NOTSET"}

StringInputs ==
    {StrV(x) : x \in UNION {NameForms[l] : l \in Levels} \cup OtherNames}
    \cup {NoneV}

IntInputs == {IntV(n) : n \in (0 - MaxCode)..MaxCode}

ConversionInit ==
    /\ NoRegistry
    /\ NoPipeline
    /\ adapter = <<>>
    /\ callers = <<>>
    /\ logFile = <<>>
    /\ operand \in StringInputs \cup IntInputs

\* LogLevel.from_string(operand): `if not level_str` covers None.
FromStringStep ==
    /\ result.op = "none"
    /\ operand \in StringInputs
    /\ LET l == IF operand.t = "none" THEN ValueError ELSE from_string(operand.s)
       IN  result' = IF l = ValueError
                     THEN [op |-> "from_string", on |-> 0, err |-> ValueError, ret |-> ""]
                     ELSE [op |-> "from_string", on |-> 0, err |-> "", ret |-> l]
    /\ UNCHANGED <<auxVars, regVars, managers, loggers, pipelines, rootHandlers,
                   handlerListeners, fallbackLog, sent>>

\* LogLevel.from_int(operand)
FromIntStep ==
    /\ result.op = "none"
    /\ operand \in IntInputs
    /\ LET l == from_int(operand.n)
       IN  result' = IF l = ValueError
                     THEN [op |-> "from_int", on |-> 0, err |-> ValueError, ret |-> ""]
                     ELSE [op |-> "from_int", on |-> 0, err |-> "", ret |-> l]
    /\ UNCHANGED <<auxVars, regVars, managers, loggers, pipelines, rootHandlers,
                   handlerListeners, fallbackLog, sent>>

ConversionNext == FromStringStep \/ FromIntStep

ConversionSpec == ConversionInit /\ [][ConversionNext]_vars

----------------------------------------------------------------------------
(* Claims about the conversions.                                            *)

\* C14: from_string applied to any spelling of the name of a level x returns
\* x, and from_int applied to x.to_logging_level() returns x.
C14_LevelRoundTrip ==
    \A x \in Levels :
        /\ (result.op = "from_string" /\ operand.s \in NameForms[x])
              => (result.err = "" /\ result.ret = x)
        /\ (result.op = "from_int" /\ operand.n = to_logging_level(x))
              => (result.err = "" /\ result.ret = x)

\* C14 witness: from_string has returned WARNING for a spelling in mixed
\* case.
C14_Witness ==
    /\ result.op = "from_string" /\ operand = StrV("WARNing")
    /\ result.ret = "WARNING"

\* The five codes of the fixed mapping.
Codes == {to_logging_level(x) : x \in Levels}

\* C15: from_string raises ValueError, and returns no level, on None, on the
\* empty string and on every string that spells no level name; from_int
\* raises ValueError, and returns no level, on every negative integer and
\* on every integer that is not one of the five codes.
C15_InvalidLevelRejected ==
    /\ (result.op = "from_string"
          /\ operand.s \notin UNION {NameForms[x] : x \in Levels})
          => (result.err = ValueError /\ result.ret \notin Levels)
    /\ (result.op = "from_int" /\ operand.n \notin Codes)
          => (result.err = ValueError /\ result.ret \notin Levels)

\* C15 witness: from_int has raised ValueError on a code between two codes
\* of the mapping.
C15_Witness ==
    /\ result.op = "from_int" /\ operand = IntV(25)
    /\ result.err = ValueError

----------------------------------------------------------------------------
(* The level-argument specification: LoggerHandler constructed with one     *)
(* level argument.                                                          *)

\* The values passed as console_level or file_level: 0, the empty string,
\* an unmapped code, a valid name and None.
LevelArgInputs == {IntV(0), StrV(""), IntV(5), StrV("debug"), NoneV}

LevelArgCalls ==
    {KwCall(k :> v) : k \in {"console_level", "file_level"}, v \in LevelArgInputs}

LevelArgNext ==
    \E call \in LevelArgCalls, mkdirOk \in BOOLEAN : Construct(call, mkdirOk)

LevelArgSpec == RegistryInit /\ [][LevelArgNext]_vars

\* v is neither None nor a value _validate_log_level converts to a level.
InvalidLevel(v) == v.t # "none" /\ ManagerValidateLevel(v) = ValueError

\* C16 (as claimed): a LoggerHandler construction that passes an invalid
\* level as console_level or file_level does not return an instance.
C16_InvalidLevelSurfaced ==
    \A i \in DOMAIN history :
        (\E k \in DOMAIN history[i].call.kw : InvalidLevel(history[i].call.kw[k]))
        => history[i].kind # "ok"

----------------------------------------------------------------------------
(* InstanceAdapter: the sticky context self.extra, add_context and          *)
(* remove_context under self._lock, and process, which takes no lock.       *)

KeyError == "KeyError"

\* Context keys in the order a mapping lists them.
KeyOrder == <<"a", "b", "c">>

\* list(mapping.keys())
KeySeq(d) == SelectSeq(KeyOrder, LAMBDA k : k \in DOMAIN d)

\* dict.setdefault for every item of src: keys already in d keep their value
\* (mutant).
DictSetDefault(d, src) ==
    [k \in DOMAIN d \cup DOMAIN src |-> IF k \in DOMAIN d THEN d[k] ELSE src[k]]

\* dict.update / the `**src` of a dict display: every item of src is stored
\* in d, replacing the value of a key d already has.
DictUpdate(d, src) ==
    [k \in DOMAIN d \cup DOMAIN src |-> IF k \in DOMAIN src THEN src[k] ELSE d[k]]

\* `{**sticky, **extra}`
Merged(sticky, extra) == DictUpdate(DictUpdate(<<>>, sticky), extra)

\* InstanceAdapter.__init__(logger, extra): kind is "dict" for a dict (or
\* the defaultdict built when extra is None) and "mapping" for any other
\* MutableMapping, whose keys() and __getitem__ run as Python code.
AdapterInit(kind, extra, writers) ==
    [kind  |-> kind,
     extra |-> extra,
     lock  |-> 0,
     wpc   |-> [w \in writers |-> [pc |-> "idle", op |-> "", key |-> "", val |-> 0]],
     rpc   |-> "idle",
     rsize |-> 0,
     rkeys |-> <<>>,
     racc  |-> <<>>,
     seen  |-> {},
     muts  |-> 0]

\* `extra = kwargs.setdefault("extra", {})` for the kwargs of the call.
CallExtra(kwargs) == IF kwargs.given THEN kwargs.items ELSE <<>>

ProcessReturn(ret) == [op |-> "process", on |-> 0, err |-> "", ret |-> ret]
ProcessRaise(err) == [op |-> "process", on |-> 0, err |-> err, ret |-> <<>>]

OutsideAdapter ==
    <<regVars, managers, loggers, pipelines, rootHandlers, handlerListeners,
      fallbackLog, sent, callers, logFile>>

\* InstanceAdapter.process(msg, kwargs), up to the first point where another
\* thread can run: the check of kwargs["extra"] (ValueError when it is given
\* and is no mapping), then the merge.  On a dict the whole
\* `{**self.extra, **extra}` is one step; on another mapping the iteration
\* over its keys begins.
ProcessBegin ==
    /\ adapter.rpc = "idle"
    /\ IF operand.given /\ ~operand.mapping
       THEN /\ result' = ProcessRaise(ValueError)
            /\ adapter' = [adapter EXCEPT !.rpc = "done"]
       ELSE IF adapter.kind = "dict" \/ adapter.extra = <<>>
       THEN /\ result' = ProcessReturn(Merged(adapter.extra, CallExtra(operand)))
            /\ adapter' = [adapter EXCEPT !.rpc = "done", !.seen = {adapter.extra}]
       ELSE /\ adapter' = [adapter EXCEPT
                    !.rpc = "listing", !.seen = {adapter.extra},
                    !.rsize = Cardinality(DOMAIN adapter.extra)]
            /\ UNCHANGED result
    /\ UNCHANGED <<operand, OutsideAdapter>>

\* The iteration over the keys of the mapping ends: RuntimeError if the
\* mapping changed size during it, else the list of keys.
ProcessListKeys ==
    /\ adapter.rpc = "listing"
    /\ IF Cardinality(DOMAIN adapter.extra) # adapter.rsize
       THEN /\ result' = ProcessRaise(RuntimeError)
            /\ adapter' = [adapter EXCEPT !.rpc = "done"]
       ELSE /\ adapter' = [adapter EXCEPT !.rpc = "reading",
                                          !.rkeys = KeySeq(adapter.extra)]
            /\ UNCHANGED result
    /\ UNCHANGED <<operand, OutsideAdapter>>

\* One mapping[key] of the merge, KeyError if the key is gone; after the
\* last one the call-site extra is merged in and process returns.
ProcessRead ==
    /\ adapter.rpc = "reading"
    /\ LET k   == Head(adapter.rkeys)
           acc == DictUpdate(adapter.racc, k :> adapter.extra[k])
       IN  IF k \notin DOMAIN adapter.extra
           THEN /\ result' = ProcessRaise(KeyError)
                /\ adapter' = [adapter EXCEPT !.rpc = "done"]
           ELSE IF Len(adapter.rkeys) = 1
           THEN /\ result' = ProcessReturn(Merged(acc, CallExtra(operand)))
                /\ adapter' = [adapter EXCEPT !.rpc = "done", !.rkeys = <<>>,
                                              !.racc = acc]
           ELSE /\ adapter' = [adapter EXCEPT !.rkeys = Tail(@), !.racc = acc]
                /\ UNCHANGED result
    /\ UNCHANGED <<operand, OutsideAdapter>>

\* `with self._lock:` can be entered
LockFree(a) == a.lock = 0

\* add_context(key, value) (op = "add") or remove_context(key) (op =
\* "remove") called by thread w: `with self._lock` is entered.
ContextEnter(w, op, key, val) ==
    /\ adapter.wpc[w].pc = "idle"
    /\ LockFree(adapter)
    /\ adapter' = [adapter EXCEPT
            !.lock = w, !.muts = @ + 1,
            !.wpc[w] = [pc |-> "locked", op |-> op, key |-> key, val |-> val]]
    /\ UNCHANGED <<operand, result, OutsideAdapter>>

\* self.extra[key] = value, or self.extra.pop(key, None)
Mutated(extra, c) ==
    IF c.op = "add" THEN DictUpdate(extra, c.key :> c.val)
    ELSE [k \in DOMAIN extra \ {c.key} |-> extra[k]]

\* The body of the `with` block of thread w and the release of the lock.
ContextMutate(w) ==
    /\ adapter.wpc[w].pc = "locked"
    /\ LET new == Mutated(adapter.extra, adapter.wpc[w])
       IN  adapter' = [adapter EXCEPT
                !.extra = new,
                !.lock = 0,
                !.wpc[w].pc = "idle",
                !.seen = IF adapter.rpc \in {"listing", "reading"}
                         THEN @ \cup {new} ELSE @]
    /\ UNCHANGED <<operand, result, OutsideAdapter>>

----------------------------------------------------------------------------
(* The merge specification: one process call on an adapter nobody mutates.  *)

ContextKeys == {"a", "b"}
ContextValues == {1, 2}

\* Every sticky context over the two keys.
Contexts == UNION {[S -> ContextValues] : S \in SUBSET ContextKeys}

\* The kwargs of the call: no extra; extra a dict that is empty, collides
\* with the sticky context on one key, or brings a new key as well; extra
\* None.
KwargsChoices ==
    {[given |-> FALSE, mapping |-> FALSE, items |-> <<>>],
     [given |-> TRUE,  mapping |-> FALSE, items |-> <<>>]}
    \cup {[given |-> TRUE, mapping |-> TRUE, items |-> d] :
            d \in {<<>>, "a" :> 9, "b" :> 9, ("a" :> 9) @@ ("c" :> 8)}}

MergeInit ==
    /\ NoRegistry
    /\ NoPipeline
    /\ callers = <<>>
    /\ logFile = <<>>
    /\ operand \in KwargsChoices
    /\ \E kind \in {"dict", "mapping"}, extra \in Contexts :
            adapter = AdapterInit(kind, extra, {})

MergeNext == ProcessBegin \/ ProcessListKeys \/ ProcessRead

MergeSpec == MergeInit /\ [][MergeNext]_vars

\* C17: the mapping process returns has exactly the keys of the sticky
\* context and of the call-site extra, with the call-site value on every key
\* of the extra and the sticky value on every other key; no step of process
\* changes the sticky context or the call-site extra.
C17_ContextMerge ==
    /\ [](adapter.rpc = "done" /\ result.err = ""
          => LET ret    == result.ret
                 sticky == adapter.extra
                 extra  == CallExtra(operand)
             IN  /\ DOMAIN ret = DOMAIN sticky \cup DOMAIN extra
                 /\ \A k \in DOMAIN extra : ret[k] = extra[k]
                 /\ \A k \in DOMAIN sticky \ DOMAIN extra : ret[k] = sticky[k])
    /\ [][adapter'.extra = adapter.extra /\ operand' = operand]_vars

\* C17 witness: process has returned for a sticky context and an extra that
\* collide on key a and differ elsewhere; the merge has the call-site value
\* on a.
C17_Witness ==
    /\ adapter.rpc = "done" /\ result.err = ""
    /\ adapter.kind = "mapping"
    /\ adapter.extra = ("a" :> 1) @@ ("b" :> 2)
    /\ operand.items = ("a" :> 9) @@ ("c" :> 8)
    /\ result.ret = ("a" :> 9) @@ ("b" :> 2) @@ ("c" :> 8)

----------------------------------------------------------------------------
(* The context specification: two threads call add_context and              *)
(* remove_context while a third calls process.                              *)

MaxMutations == 2

Writers == {1, 2}

ContextInit ==
    /\ NoRegistry
    /\ NoPipeline
    /\ callers = <<>>
    /\ logFile = <<>>
    /\ operand \in {[given |-> FALSE, mapping |-> FALSE, items |-> <<>>],
                     [given |-> TRUE, mapping |-> TRUE, items |-> "a" :> 9]}
    /\ \E kind \in {"dict", "mapping"},
          extra \in {<<>>, ("a" :> 1) @@ ("b" :> 1)} :
            adapter = AdapterInit(kind, extra, Writers)

ContextNext ==
    \/ ProcessBegin
    \/ ProcessListKeys
    \/ ProcessRead
    \/ \E w \in Writers, op \in {"add", "remove"}, key \in ContextKeys,
          val \in ContextValues :
            /\ adapter.muts < MaxMutations
            /\ op = "remove" => val = 1
            /\ ContextEnter(w, op, key, val)
    \/ \E w \in Writers : ContextMutate(w)

ContextSpec == ContextInit /\ [][ContextNext]_vars

\* C18 (as claimed): at most one thread is inside add_context or
\* remove_context at a time, and every process call returns the merge of
\* the call-site extra with the sticky context as it was at some moment of
\* the call, before or after each concurrent mutation.
C18_ConsistentSnapshot ==
    /\ Cardinality({w \in DOMAIN adapter.wpc : adapter.wpc[w].pc = "locked"}) <= 1
    /\ adapter.rpc = "done"
         => /\ result.err = ""
            /\ \E c \in adapter.seen : result.ret = Merged(c, CallExtra(operand))

----------------------------------------------------------------------------
(* The record of one log_message call on its way to the file sink:          *)
(* Logger.makeRecord, QueueHandler.prepare, NDJsonFormatter.format.         *)

RecursionError == "RecursionError"

\* Python values carried in an extra: an object json cannot serialize, a
\* list nested deeper than the interpreter's recursion limit, and a dict,
\* named by its entry in DictObjects.
ObjV == [t |-> "object", s |-> "", n |-> 0]
DeepV == [t |-> "deep", s |-> "", n |-> 0]
DictV(ref) == [t |-> "dict", s |-> ref, n |-> 0]

\* The dict objects the model passes inside an extra: a context, a context
\* holding an object, a dict that contains itself, a context whose key is
\* a field name of the file record, and a context holding a deep list.
DictObjects ==
    [ref \in {"ctx", "bad", "cyc", "clash", "deep"} |->
        CASE ref = "ctx"   -> ("user" :> StrV("u1"))
          [] ref = "bad"   -> ("k" :> ObjV)
          [] ref = "deep"  -> ("k" :> DeepV)
          [] ref = "cyc"   -> ("self" :> DictV("cyc"))
          [] ref = "clash" -> ("msg" :> StrV("other"))]

\* The attributes every LogRecord has, which makeRecord refuses to overwrite,
\* and the two names it refuses as well.
ReservedAttrs ==
    {"message", "asctime", "name", "msg", "args", "levelname", "levelno",
     "pathname", "filename", "module", "exc_info", "exc_text", "stack_info",
     "lineno", "funcName", "created", "msecs", "relativeCreated", "thread",
     "threadName", "processName", "process"}

\* log_method(message, exc_info=exc_info, extra=extra) -> Logger.makeRecord:
\* every key of extra becomes an attribute of the record; err is KeyError
\* when a key is reserved.  trace: the traceback text is part of msg.
MakeRecord(message, level, exc_info, extra) ==
    [err       |-> IF \E k \in DOMAIN extra : k \in ReservedAttrs
                   THEN KeyError ELSE "",
     levelname |-> level,
     msg       |-> message,
     trace     |-> FALSE,
     exc_info  |-> exc_info,
     attrs     |-> extra]

\* QueueHandler.prepare: msg becomes the formatted message, with the
\* traceback appended when exc_info is set, and exc_info is cleared.
Prepare(record) ==
    [record EXCEPT !.trace = record.exc_info, !.exc_info = FALSE]

\* utils.contains_placeholders: re.search(r'(?:%\w|\{\{|\})', s), on the
\* messages of the model.
ContainsPlaceholders(text) == text \in {"100%s", "a}"}

\* `message % record.args` with args None, or the text format puts in its
\* place when the operator raises.
PercentNone(text) ==
    CASE text = "100%s" -> "100None"
      [] text = "a}"    ->
            "Message formatting error: not all arguments converted during string formatting"
      [] OTHER          -> text

TracebackText == "Traceback (most recent call last)"

\* The message of the record as NDJsonFormatter.format leaves it in
\* record.msg.
FormattedMessage(record) ==
    (IF ContainsPlaceholders(record.msg) THEN PercentNone(record.msg)
     ELSE record.msg)
    \o (IF record.trace THEN TracebackText ELSE "")

\* NDJsonFormatter._create_log_record
CreateLogRecord(record) ==
    LET base ==
            [k \in {"ts", "lvl", "msg", "mod", "fn_name", "line_no", "path_name",
                    "env"} |->
                CASE k = "lvl"     -> StrV(record.levelname)
                  [] k = "msg"     -> StrV(FormattedMessage(record))
                  [] k = "line_no" -> IntV(1)
                  [] OTHER         -> StrV(k)]
        traced ==
            IF record.levelname \in {"ERROR", "EXCEPTION"} /\ record.exc_info
            THEN DictUpdate(base, "stack_trace" :> StrV(TracebackText))
            ELSE base
    IN  IF "extra" \in DOMAIN record.attrs /\ record.attrs["extra"].t = "dict"
        THEN DictUpdate(traced, DictObjects[record.attrs["extra"].s])
        ELSE traced

RECURSIVE DumpsValueError(_, _)

\* What json.dumps raises on dict d, "" if nothing: TypeError on a value it
\* cannot serialize, ValueError on a dict met inside itself (open: the
\* dicts being serialized), RecursionError on a value nested deeper than the
\* recursion limit.  The dicts of the model hold at most one such value.
DumpsError(d, open) ==
    LET errs == {DumpsValueError(d[k], open) : k \in DOMAIN d} \ {""}
    IN  IF errs = {} THEN "" ELSE CHOOSE e \in errs : TRUE

DumpsValueError(v, open) ==
    CASE v.t \in {"object", "path", "level"} -> TypeError
      [] v.t = "deep" -> RecursionError
      [] v.t = "dict" -> IF v.s \in open THEN ValueError
                         ELSE DumpsError(DictObjects[v.s], open \cup {v.s})
      [] OTHER -> ""

\* str(e) of the exception json.dumps raised.
ErrorText(err) ==
    IF err = TypeError THEN "Object of type object is not JSON serializable"
    ELSE "Circular reference detected"

MsgSerialization == "Log serialization error"

\* NDJsonFormatter.format: err is the exception it raises, "" if it returns;
\* line holds the fields of the JSON line it returns.  The except clause
\* names TypeError and ValueError.
Format(record) ==
    LET log_record == CreateLogRecord(record)
        err        == DumpsError(log_record, {})
    IN  CASE err = "" -> [err |-> "", line |-> log_record]
          [] err \in {TypeError, ValueError} ->
                [err  |-> "",
                 line |-> [k \in {"ts", "lvl", "msg", "stack_trace"} |->
                            CASE k = "ts"          -> StrV("ts")
                              [] k = "lvl"         -> StrV(record.levelname)
                              [] k = "msg"         -> StrV(MsgSerialization)
                              [] k = "stack_trace" -> StrV(ErrorText(err))]]
          [] OTHER -> [err |-> err, line |-> <<>>]

----------------------------------------------------------------------------
(* One event from the call to its line in the log file.                     *)

Messages == {"plain", "100%s", "a}"}
LevelNames == {"INFO", "ERROR", "CRITICAL"}

\* The extra of the call: none, a key, the key "extra" holding a dict
\* object or a string, an object under a key, a reserved key.
ExtraChoices ==
    {<<>>, "user" :> StrV("u1"), "k" :> ObjV, "message" :> StrV("x"),
     "extra" :> StrV("text")}
    \cup {"extra" :> DictV(ref) : ref \in DOMAIN DictObjects}

\* The sticky context of the InstanceAdapter the call goes through; with an
\* empty one process hands the extra on as it is, as the direct call does.
StickyChoices == {<<>>, "req" :> StrV("r1")}

FormatInit ==
    /\ NoRegistry
    /\ NoPipeline
    /\ adapter = <<>>
    /\ callers = <<>>
    /\ logFile = <<>>
    /\ operand \in [message : Messages, level : LevelNames, exc_info : BOOLEAN,
                     extra : ExtraChoices, sticky : StickyChoices]

\* The producer's part: log_method(message, exc_info=, extra=) makes the
\* record from the merged extra and hands it to the QueueHandler, which
\* prepares and enqueues it; a reserved key raises KeyError in the caller.
LogCall ==
    /\ result.op = "none"
    /\ LET record == MakeRecord(operand.message, operand.level, operand.exc_info,
                                Merged(operand.sticky, operand.extra))
       IN  result' = [op |-> "log_message", on |-> 0, err |-> record.err,
                      ret |-> [record |-> Prepare(record), lines |-> <<>>,
                               raised |-> ""]]
    /\ UNCHANGED <<auxVars, regVars, managers, loggers, pipelines, rootHandlers,
                   handlerListeners, fallbackLog, sent>>

\* The listener's part for the file sink: Handler.emit writes the line
\* format returns; when format raises, handleError reports on stderr and
\* nothing is written.
FileEmit ==
    /\ result.op = "log_message"
    /\ result.err = ""
    /\ LET f == Format(result.ret.record)
       IN  result' = [op |-> "emit", on |-> 0, err |-> "",
                      ret |-> [record |-> result.ret.record,
                               lines  |-> IF f.err = "" THEN <<f.line>> ELSE <<>>,
                               raised |-> f.err]]
    /\ UNCHANGED <<auxVars, regVars, managers, loggers, pipelines, rootHandlers,
                   handlerListeners, fallbackLog, sent>>

FormatNext == LogCall \/ FileEmit

FormatSpec == FormatInit /\ [][FormatNext]_vars

\* json.dumps fails on the record the formatter builds for this event.
Unserializable(record) == DumpsError(CreateLogRecord(record), {}) # ""

\* C19: for every event whose record json.dumps cannot serialize, format
\* does not raise and the file gets exactly one line, the fallback record:
\* timestamp, level, the fixed serialization-error message and the error
\* description.
C19_SerializationFailureRecovered ==
    result.op = "emit" /\ Unserializable(result.ret.record)
    => /\ result.ret.raised = ""
       /\ Len(result.ret.lines) = 1
       /\ LET line == result.ret.lines[1]
          IN  /\ DOMAIN line = {"ts", "lvl", "msg", "stack_trace"}
              /\ line["lvl"] = StrV(operand.level)
              /\ line["msg"] = StrV(MsgSerialization)
              /\ line["stack_trace"].s # ""

\* C20: every key of the merged context of an event (sticky context and
\* call-site extra) is a top-level field of the event's file record, with
\* its value; the fallback record apart.
C20_ContextReachesFileRecord ==
    result.op = "emit" /\ ~Unserializable(result.ret.record)
    => LET context == Merged(operand.sticky, operand.extra)
       IN  /\ Len(result.ret.lines) = 1
           /\ \A k \in DOMAIN context :
                  /\ k \in DOMAIN result.ret.lines[1]
                  /\ result.ret.lines[1][k] = context[k]

\* C21: the file record of an event has a stack_trace field exactly when
\* the event's level is ERROR or CRITICAL and exception info was captured
\* for it; the fallback record apart.
C21_StackTraceIffErrorWithExcInfo ==
    result.op = "emit" /\ ~Unserializable(result.ret.record)
                      /\ Len(result.ret.lines) = 1
    => ("stack_trace" \in DOMAIN result.ret.lines[1]
        <=> operand.level \in {"ERROR", "CRITICAL"} /\ operand.exc_info)

\* C30: for every event whose record serializes, the msg field of the file
\* record is the message text passed to log_message, messages that look
\* like format strings included.
C30_MessageFidelity ==
    result.op = "emit" /\ ~Unserializable(result.ret.record)
                      /\ Len(result.ret.lines) = 1
    => result.ret.lines[1]["msg"] = StrV(operand.message)

----------------------------------------------------------------------------
(* Creating the log directory: LoggerHandler constructions and the          *)
(* setup_logger of one LoggerManager handle, with a directory that can or   *)
(* cannot be created and a log file that always opens.                      *)

FolderCalls == {KwCall("folder_path" :> v) : v \in FolderChoices}

FolderInit ==
    /\ NoAux
    /\ NoRegistry
    /\ managers = [h \in {1} |->
            ManagerInit(ModuleName, ProjectName, LevelV("INFO"), LevelV("DEBUG"))]
    /\ loggers = (ModuleName :> <<>>)
    /\ pipelines = <<>>
    /\ rootHandlers = <<>>
    /\ handlerListeners = <<>>
    /\ fallbackLog = {}
    /\ sent = [t \in {1} |-> 0]
    /\ result = [op |-> "none", on |-> 0, err |-> "", ret |-> ""]

FolderNext ==
    \/ \E call \in FolderCalls, mkdirOk \in BOOLEAN : Construct(call, mkdirOk)
    \/ \E h \in DOMAIN managers, force, mkdirOk \in BOOLEAN :
            /\ WithinPipelines(MaxPipelines, h, force, mkdirOk, TRUE)
            /\ SetupLoggerStep(h, force, mkdirOk, TRUE)

FolderSpec == FolderInit /\ [][FolderNext]_vars

\* The step is a LoggerHandler construction, or a setup_logger call, in
\* which creating the directory failed.
MkdirFailed ==
    \/ /\ history' # history
       /\ history'[Len(history')].kind = OSError
    \/ /\ result' # result
       /\ result'.op = "setup_logger"
       /\ result'.err = OSError

\* C22: whenever creating the log directory fails in a construction or in
\* a setup, the failure has been reported on the fallback logger when the
\* error reaches the caller.
C22_MkdirFailureReported ==
    [][MkdirFailed => MsgMkdirFailed \in fallbackLog']_vars

\* C23: with LOGGING_ENABLED false, no setup call of either class creates a
\* console handler, a file handler or a listener.
C23_DisabledCreatesNothing ==
    ~loggingEnabled
    => /\ rootHandlers = <<>>
       /\ handlerListeners = <<>>
       /\ pipelines = <<>>
       /\ \A n \in DOMAIN loggers : loggers[n] = <<>>

\* The last call was a setup_logger on handle h that raised, and no setup
\* of h ever succeeded.
SetupFailed(h) ==
    /\ managers[h].listener = 0
    /\ result.op = "setup_logger"
    /\ result.on = h
    /\ result.err = OSError

\* C29: after a setup_logger that raised, log_message on the handle raises
\* the not-initialized error and accepts nothing, and setup_logger without
\* force performs the setup.
C29_FailedSetupLeavesUnconfigured ==
    [][\A h \in DOMAIN managers :
        SetupFailed(h)
        => /\ \A t \in DOMAIN sent, level \in LogLevelArgs, exc_info \in BOOLEAN :
                LogMessageStep(t, h, level, exc_info)
                => /\ result'.err = RuntimeError
                   /\ UNCHANGED <<pipelines, rootHandlers>>
           /\ (SetupLoggerStep(h, FALSE, TRUE, TRUE)
                => managers'[h].listener # 0)]_vars

----------------------------------------------------------------------------
(* Singleton.__call__ run by several threads: the steps between which       *)
(* another thread can run.                                                  *)

MaxCallers == 3
CallerThreads == 1..MaxCallers

\* The constructions the threads evaluate: two forms of the same
\* parameters, other parameters, and a keyword __init__ does not have.
CallerCalls ==
    {KwCall(NoKw), PosCall(<<StrV("./logs")>>),
     KwCall("folder_path" :> StrV("./other_logs")),
     KwCall("force_new_instance" :> BoolV(TRUE))}

\* lock: the thread holding Singleton._lock, 0 if none.  Per thread: its
\* position in __call__, its call, the key it computed, the error it
\* raises, whether it ran __init__, the instance it returned.  built: the
\* keys __init__ has completed for, in order.
CallersInit ==
    [lock  |-> 0,
     built |-> <<>>,
     th    |-> [t \in CallerThreads |->
                [pc |-> "idle", call |-> KwCall(NoKw), key |-> {}, err |-> "",
                 ranInit |-> FALSE, inst |-> 0]]]

\* Every acquire succeeds at once (mutant).
LockGrantedAlways(lock) == TRUE

\* threading.Lock.acquire returns only while no thread holds the lock.
LockGranted(lock) == lock = 0

\* `with cls._lock:` entered by thread t, then the key of the call is
\* computed; sig.bind raises TypeError inside the with block.
CallEnter(t, call) ==
    /\ callers.th[t].pc = "idle"
    /\ LockGranted(callers.lock)
    /\ LET bound == Bind(call)
       IN  callers' = [callers EXCEPT
                !.lock = t,
                !.th[t] = IF bound.err # ""
                          THEN [@ EXCEPT !.pc = "raising", !.call = call,
                                         !.err = bound.err]
                          ELSE [@ EXCEPT !.pc = "locked", !.call = call,
                                         !.key = KeyOf(ApplyDefaults(bound.arguments))]]
    /\ UNCHANGED <<regVars, pipeVars, operand, adapter, logFile>>

\* `if key not in cls._instances`
CallLookup(t) ==
    /\ callers.th[t].pc = "locked"
    /\ callers' = [callers EXCEPT !.th[t].pc =
            IF Lookup(callers.th[t].key) THEN "leaving" ELSE "constructing"]
    /\ UNCHANGED <<regVars, pipeVars, operand, adapter, logFile>>

\* `cls._instances[key] = super().__call__(*args, **kwargs)`: __init__ runs
\* and, when it returns, the instance is stored under the key.
CallConstruct(t, mkdirOk) ==
    /\ callers.th[t].pc = "constructing"
    /\ LET me   == callers.th[t]
           args == ApplyDefaults(Bind(me.call).arguments)
           obj  == HandlerInit(args, mkdirOk, loggingEnabled)
           id   == Cardinality(DOMAIN objects) + 1
       IN  IF obj.err # ""
           THEN /\ callers' = [callers EXCEPT !.th[t].pc = "raising",
                                              !.th[t].err = obj.err,
                                              !.th[t].ranInit = TRUE]
                /\ fallbackLog' = IF obj.err = OSError
                                  THEN fallbackLog \cup {MsgMkdirFailed}
                                  ELSE fallbackLog
                /\ UNCHANGED <<instances, objects>>
           ELSE /\ objects' = objects @@ (id :> obj)
                /\ instances' = (me.key :> id) @@ instances
                /\ callers' = [callers EXCEPT !.th[t].pc = "leaving",
                                              !.th[t].ranInit = TRUE,
                                              !.built = Append(@, me.key)]
                /\ UNCHANGED fallbackLog
    /\ UNCHANGED <<history, loggingEnabled, managers, loggers, pipelines,
                   rootHandlers, handlerListeners, sent, result, operand, adapter, logFile>>

\* The with block is left: the lock is released; an exception goes on to
\* the caller.
CallExit(t) ==
    /\ callers.th[t].pc \in {"leaving", "raising"}
    /\ LET me == callers.th[t]
       IN  IF me.pc = "raising"
           THEN /\ callers' = [callers EXCEPT !.lock = 0, !.th[t].pc = "raised"]
                /\ history' = Append(history,
                        [call |-> me.call, kind |-> me.err, key |-> me.key,
                         inst |-> 0, ranInit |-> me.ranInit])
           ELSE /\ callers' = [callers EXCEPT !.lock = 0, !.th[t].pc = "released"]
                /\ UNCHANGED history
    /\ UNCHANGED <<instances, objects, loggingEnabled, pipeVars, operand, adapter, logFile>>

\* `return cls._instances[key]`, outside the lock; KeyError if the key is
\* not in the registry.
CallReturn(t) ==
    /\ callers.th[t].pc = "released"
    /\ LET me == callers.th[t]
       IN  IF Lookup(me.key)
           THEN /\ callers' = [callers EXCEPT !.th[t].pc = "done",
                                              !.th[t].inst = instances[me.key]]
                /\ history' = Append(history,
                        [call |-> me.call, kind |-> "ok", key |-> me.key,
                         inst |-> instances[me.key], ranInit |-> me.ranInit])
           ELSE /\ callers' = [callers EXCEPT !.th[t].pc = "raised",
                                              !.th[t].err = KeyError]
                /\ history' = Append(history,
                        [call |-> me.call, kind |-> KeyError, key |-> me.key,
                         inst |-> 0, ranInit |-> me.ranInit])
    /\ UNCHANGED <<instances, objects, loggingEnabled, pipeVars, operand, adapter, logFile>>

CallerInit ==
    /\ NoRegistry
    /\ NoPipeline
    /\ operand = <<>>
    /\ adapter = <<>>
    /\ logFile = <<>>
    /\ callers = CallersInit

CallerNext ==
    \/ \E t \in CallerThreads, call \in CallerCalls : CallEnter(t, call)
    \/ \E t \in CallerThreads : CallLookup(t)
    \/ \E t \in CallerThreads, mkdirOk \in BOOLEAN : CallConstruct(t, mkdirOk)
    \/ \E t \in CallerThreads : CallExit(t)
    \/ \E t \in CallerThreads : CallReturn(t)

CallerSpec == CallerInit /\ [][CallerNext]_vars

\* The threads whose call has returned an instance.
ReturnedThreads == {t \in CallerThreads : callers.th[t].pc = "done"}

\* C25: under every interleaving __init__ completes at most once for a key,
\* every thread that constructs with equal parameters gets the one
\* instance stored under the key, and a key whose construction is done is
\* never missing from the registry, for the thread about to return it and
\* for every thread that has returned.
C25_ThreadSafeCreation ==
    /\ NoDuplicate(callers.built)
    /\ \A t \in CallerThreads :
            callers.th[t].pc \in {"released", "done"}
            => callers.th[t].key \in DOMAIN instances
    /\ \A t \in ReturnedThreads :
            callers.th[t].inst = instances[callers.th[t].key]
    /\ \A t1, t2 \in ReturnedThreads :
            callers.th[t1].key = callers.th[t2].key
            => callers.th[t1].inst = callers.th[t2].inst

\* C25 witness: three threads have returned, two of them with equal
\* parameters written differently and so the same instance, which only
\* one of them constructed.
C25_Witness ==
    /\ ReturnedThreads = CallerThreads
    /\ callers.th[1].call = KwCall(NoKw)
    /\ callers.th[2].call = PosCall(<<StrV("./logs")>>)
    /\ callers.th[3].call = KwCall("folder_path" :> StrV("./other_logs"))
    /\ callers.th[1].inst = callers.th[2].inst
    /\ callers.th[3].inst # callers.th[1].inst
    /\ callers.th[2].ranInit /\ ~callers.th[1].ranInit
    /\ Len(callers.built) = 2

----------------------------------------------------------------------------
\* C26: an update_levels call given one valid and one invalid level raises
\* ValueError and leaves the handle's console_level and file_level and the
\* thresholds of both sinks as they were.
C26_UpdateLevelsAllOrNothing ==
    [][\A h \in DOMAIN managers, console_level, file_level \in UpdateLevelArgs :
        (/\ ~NotInitialized(managers[h])
         /\ (ManagerValidateLevel(console_level) = ValueError)
                # (ManagerValidateLevel(file_level) = ValueError)
         /\ UpdateLevelsStep(h, console_level, file_level))
        => /\ result'.err = ValueError
           /\ UNCHANGED <<managers, loggers, pipelines>>]_vars

----------------------------------------------------------------------------
\* The listener threads handle h has started that are still running; each
\* holds the file handler it was built with, open on the handle's log file.
RunningListeners(h) ==
    {p \in DOMAIN pipelines :
        pipelines[p].owner = h /\ pipelines[p].thread = "running"}

\* C27: after any sequence of setup_logger calls, with force or without,
\* at most one listener thread started by a handle is running.
C27_SingleConsumerPerHandle ==
    \A h \in DOMAIN managers : Cardinality(RunningListeners(h)) <= 1

\* The log file of pipeline p: log_dir / project_name_date.log; every
\* handle of the model has the same log_dir.
LogFileOf(p) == managers[pipelines[p].owner].project_name

\* C28: no event is written twice to the console or twice to one log file,
\* by one listener or by two.
C28_NoDuplicateDelivery ==
    \A p, q \in DOMAIN pipelines :
        /\ NoDuplicate(pipelines[p].console)
        /\ NoDuplicate(pipelines[p].file)
        /\ p # q => Range(pipelines[p].console) \cap Range(pipelines[q].console) = {}
        /\ p # q /\ LogFileOf(p) = LogFileOf(q)
              => Range(pipelines[p].file) \cap Range(pipelines[q].file) = {}

----------------------------------------------------------------------------
(* The rotating file sink of one LoggerManager handle.                      *)

\* LoggerManager.__init__ on max_file_size and backup_count: max_file_size
\* must be positive, backup_count is stored as given.
ManagerSizesError(max_file_size, backup_count) ==
    IF max_file_size <= 0 THEN ValueError ELSE ""

\* _setup_handlers: RotatingFileHandler(log_file, maxBytes=self.max_size,
\* backupCount=self.backup_count).  active: the records in the log file;
\* archives: the files .1, .2, ... in that order; discarded: the records of
\* the files removed so far; emitted: the records handed to the handler.
NewLogFile(max_size, backup_count) ==
    [maxBytes |-> max_size, backupCount |-> backup_count, active |-> <<>>,
     archives |-> <<>>, discarded |-> <<>>, emitted |-> 0]

RECURSIVE FileSize(_)
\* The size of a file: the lengths of its lines.
FileSize(f) == IF f = <<>> THEN 0 ELSE Head(f).size + FileSize(Tail(f))

\* RotatingFileHandler.shouldRollover(record)
ShouldRollover(lf, rec) ==
    lf.maxBytes > 0 /\ FileSize(lf.active) + rec.size >= lf.maxBytes

\* RotatingFileHandler.doRollover(): with backupCount > 0 file .i becomes
\* .i+1, the one past backupCount is removed, and the log file becomes .1;
\* otherwise the log file is reopened for appending as it is.
DoRollover(lf) ==
    IF lf.backupCount > 0
    THEN LET all == <<lf.active>> \o lf.archives
         IN  [lf EXCEPT !.active = <<>>,
                        !.archives = IF Len(all) > lf.backupCount
                                     THEN SubSeq(all, 1, lf.backupCount) ELSE all,
                        !.discarded = IF Len(all) > lf.backupCount
                                      THEN @ \o all[Len(all)] ELSE @]
    ELSE lf

\* RotatingFileHandler.emit(record): rollover if due, then the line is
\* written to the log file.
RotatingEmit(lf, rec) ==
    LET f == IF ShouldRollover(lf, rec) THEN DoRollover(lf) ELSE lf
    IN  [f EXCEPT !.active = Append(@, rec), !.emitted = @ + 1]

MaxRotateEmit == 4
MaxSizeChoices == {0, 3, 4}
BackupCountChoices == {0, 1, 2}
LineSizes == {1, 2, 3}

RotateInit ==
    /\ NoRegistry
    /\ NoPipeline
    /\ adapter = <<>>
    /\ callers = <<>>
    /\ logFile = <<>>
    /\ operand \in [max_file_size : MaxSizeChoices, backup_count : BackupCountChoices]

\* LoggerManager(..., max_file_size, backup_count) and setup_logger: the
\* file handler is built with the handle's limits.
ManagerSinkSetup ==
    /\ result.op = "none"
    /\ LET err == ManagerSizesError(operand.max_file_size, operand.backup_count)
       IN  /\ result' = [op |-> "setup_logger", on |-> 1, err |-> err, ret |-> ""]
           /\ logFile' = IF err # "" THEN logFile
                         ELSE NewLogFile(operand.max_file_size, operand.backup_count)
    /\ UNCHANGED <<regVars, managers, loggers, pipelines, rootHandlers,
                   handlerListeners, fallbackLog, sent, operand, adapter, callers>>

\* The listener hands the next record, whose line has the given size, to
\* the file handler.
FileSinkEmit(size) ==
    /\ logFile # <<>>
    /\ logFile.emitted < MaxRotateEmit
    /\ logFile' = RotatingEmit(logFile, [n |-> logFile.emitted + 1, size |-> size])
    /\ UNCHANGED <<regVars, pipeVars, operand, adapter, callers>>

RotateNext == ManagerSinkSetup \/ \E size \in LineSizes : FileSinkEmit(size)

RotateSpec == RotateInit /\ [][RotateNext]_vars

RECURSIVE Flatten(_)
\* The records of a sequence of files, first file first.
Flatten(files) == IF files = <<>> THEN <<>> ELSE Head(files) \o Flatten(Tail(files))

\* The files in order of age: archives from the highest number down.
Reversed(seq) == [i \in 1..Len(seq) |-> seq[Len(seq) + 1 - i]]

\* Every record that is or was in a file of the sink, oldest first.
AllRecords ==
    logFile.discarded \o Flatten(Reversed(logFile.archives)) \o logFile.active

\* C24: for every accepted max_size and backup_count, the log file never
\* exceeds max_size unless it holds a single record (the rotation came
\* before the write), at most backup_count archives exist, and the removed
\* records, the archives from oldest to newest and the log file together
\* hold every emitted record once, in order.
C24_Rotation ==
    logFile # <<>>
    => /\ FileSize(logFile.active) <= logFile.maxBytes \/ Len(logFile.active) = 1
       /\ Len(logFile.archives) <= logFile.backupCount
       /\ Len(AllRecords) = logFile.emitted
       /\ \A i \in 1..Len(AllRecords) : AllRecords[i].n = i

====
